---- MODULE Spec2Model ----
(***************************************************************************)
(* A model of the chain-registry access layer (src/src/registry.rs, with   *)
(* its free-function twin src/src/get.rs): the Registry operations         *)
(* list_chains, list_paths, get_chain, get_assets and get_path, the        *)
(* free functions being the Registry of the default Repo, the              *)
(* helpers get, get_file_content and parse_json, and the serde targets of  *)
(* src/src/chain.rs and src/src/paths.rs.                                  *)
(*                                                                         *)
(* Strings that the code only formats into addresses are TLA+ strings.     *)
(* Strings the code compares or slices (chain names, listed entry names)   *)
(* are sequences of one-character strings, ordered byte-wise as Rust's str *)
(* is.                                                                     *)
(***************************************************************************)
EXTENDS Naturals, Sequences, FiniteSets, TLC

VARIABLES
    repo,    \* Registry.repo: the Repo the Registry was constructed with
    remote,  \* the remote hosts: address -> reply, fixed at an address's first fetch
    log,     \* the completed calls, oldest first
    sent,    \* the addresses of the requests sent, oldest first
    cache    \* the RegistryCache: its construction and its paths

vars == <<repo, remote, log, sent, cache>>

\* The number of calls a behaviour makes.
MaxCalls == 2

\* The longest directory listing a host answers with.
MaxEntries == 2

----------------------------------------------------------------------------
(* Strings *)

\* The byte value of the characters the model uses (str compares byte-wise).
Code(c) ==
    CASE c = "-" -> 45
      [] c = "." -> 46
      [] c = "_" -> 95
      [] c = "a" -> 97
      [] c = "b" -> 98
      [] c = "g" -> 103
      [] c = "h" -> 104
      [] c = "i" -> 105
      [] c = "j" -> 106
      [] c = "n" -> 110
      [] c = "o" -> 111
      [] c = "s" -> 115
      [] c = "t" -> 116
      [] c = "u" -> 117
      [] c = "x" -> 120

\* The character sequence as one string (what format!("{}", s) writes).
RECURSIVE Str(_)
Str(s) == IF s = <<>> THEN "" ELSE Head(s) \o Str(Tail(s))

\* <str as Ord>::cmp(s, t) = Less: lexicographic by bytes, a proper prefix first.
RECURSIVE StrLess(_, _)
StrLess(s, t) ==
    IF t = <<>> THEN FALSE
    ELSE IF s = <<>> THEN TRUE
    ELSE IF Code(Head(s)) # Code(Head(t)) THEN Code(Head(s)) < Code(Head(t))
    ELSE StrLess(Tail(s), Tail(t))

\* Ord::min(self, other): other only when it is strictly smaller.
StrMin(s, t) == IF StrLess(t, s) THEN t ELSE s

\* max that always answers with other.
StrMax_other(s, t) == t

\* Ord::max(self, other): other unless it is strictly smaller.
StrMax(s, t) == IF StrLess(t, s) THEN s ELSE t

starts_with(s, prefix) ==
    /\ Len(s) >= Len(prefix)
    /\ SubSeq(s, 1, Len(prefix)) = prefix

ends_with(s, suffix) ==
    /\ Len(s) >= Len(suffix)
    /\ SubSeq(s, Len(s) - Len(suffix) + 1, Len(s)) = suffix

DotJson == <<".", "j", "s", "o", "n">>

----------------------------------------------------------------------------
(* Repo and Ref *)

Latest == [kind |-> "Latest", sha |-> ""]

SHA(s) == [kind |-> "SHA", sha |-> s]

\* Display that writes another branch name for Latest.
RefDisplay_main(r) == IF r.kind = "Latest" THEN "main" ELSE r.sha

\* impl fmt::Display for Ref
RefDisplay(r) == IF r.kind = "Latest" THEN "master" ELSE r.sha

\* impl Default for Repo
DefaultRepo ==
    [ git_ref      |-> SHA("1ec726b7308a71ce0cb02916b1929979c6f2e39d"),
      url          |-> "https://api.github.com/repos/cosmos/chain-registry/contents",
      raw_file_url |-> "https://raw.githubusercontent.com/cosmos/chain-registry" ]

\* Registry::new(repo): None gives the default Repo, Some(repo) the caller's.
Repos == { DefaultRepo, [DefaultRepo EXCEPT !.git_ref = Latest] }

----------------------------------------------------------------------------
(* Results *)

\* Result<Option<T>> and Result<Vec<String>>: Err(e), Ok(None), Ok(Some(v)), Ok(v).
Err(e) == [variant |-> "Err", error |-> e, value |-> {}]

OkNone == [variant |-> "None", error |-> "", value |-> {}]

OkSome(v) == [variant |-> "Some", error |-> "", value |-> v]

OkVec(v) == [variant |-> "Ok", error |-> "", value |-> v]

----------------------------------------------------------------------------
(* Replies of the hosts *)

\* A response body: plain text that is no JSON, a JSON object (its members
\* as <<key, kind of value>>) or a JSON array of directory entries. The
\* body of a path file also has the tags of the channels its "channels"
\* member lists.
TextBody == [kind |-> "text", members |-> {}, entries |-> <<>>, channels |-> <<>>]

ObjectBody(members) ==
    [kind |-> "object", members |-> members, entries |-> <<>>, channels |-> <<>>]

ArrayBody(entries) ==
    [kind |-> "array", members |-> {}, entries |-> entries, channels |-> <<>>]

\* The request did not complete: connection refused, DNS, timeout.
Refused == [refused |-> TRUE, status |-> 0, body |-> TextBody]

Reply(status, body) == [refused |-> FALSE, status |-> status, body |-> body]

\* The statuses the raw-file host answers with.
Statuses == {200, 404, 500}

\* The statuses the contents API answers a listing with.
ListingStatuses == {200, 404}

----------------------------------------------------------------------------
(* Deserialization targets *)

\* struct ChainInfo, #[serde(default,)]: two of its fields and their JSON kinds.
ChainInfo == [chain_name |-> "string", slip44 |-> "number"]

\* struct IBCPath, #[serde(default, rename_all = "snake_case")].
IBCPath == [chain_1 |-> "object", chain_2 |-> "object", channels |-> "array"]

\* struct AssetList of assets.rs.
AssetList == [chain_name |-> "string", assets |-> "array"]

\* The bodies a file of the registry is served with: no JSON; every field of
\* the schema; one more field than the schema has; a field of the wrong
\* kind.
Bodies(schema) ==
    LET exact == { <<k, schema[k]>> : k \in DOMAIN schema }
        k0    == CHOOSE k \in DOMAIN schema : schema[k] = "object" \/ schema[k] = "string"
    IN  { TextBody,
          ObjectBody(exact),
          ObjectBody(exact \cup { <<"images", "array">> }),
          ObjectBody((exact \ { <<k0, schema[k0]>> }) \cup { <<k0, "number">> }) }

\* serde_json::from_str::<T>(data) for a struct T that derives Deserialize
\* with #[serde(default)] and without deny_unknown_fields. Of a JSON object,
\* a member the struct names must have the field's kind, a member it does
\* not name is skipped, a field without member keeps its default. A JSON
\* array is read as the fields in order: the empty one gives the default
\* value, and an entry (an object) does not fit the first field, a String.
\* The value is the set of fields read from the body.
from_str(data, schema) ==
    IF data.kind = "text" THEN Err("syntax")
    ELSE IF data.kind = "array"
         THEN (IF data.entries = <<>> THEN OkSome({}) ELSE Err("invalid type"))
         ELSE IF \E m \in data.members : m[1] \in DOMAIN schema /\ m[2] # schema[m[1]]
              THEN Err("invalid type")
              ELSE OkSome({ m[1] : m \in { n \in data.members : n[1] \in DOMAIN schema } })

----------------------------------------------------------------------------
(* registry.rs *)

\* format!("{}/{}/{}", &repo.raw_file_url, &repo.git_ref, path)
FileUrl(r, path) == r.raw_file_url \o "/" \o RefDisplay(r.git_ref) \o "/" \o path

\* get_file_content without its NOT_FOUND branch.
get_file_content_no_404(path, resp) ==
    IF resp.refused THEN [ok |-> FALSE, error |-> "transport", body |-> TextBody]
    ELSE [ok |-> TRUE, error |-> "", body |-> resp.body]

\* get_file_content(path, repo), given what the request met: Result<String>.
\* A request that fails while the body is read fails as a refused one does.
get_file_content(path, resp) ==
    IF resp.refused THEN [ok |-> FALSE, error |-> "transport", body |-> TextBody]
    ELSE IF resp.status = 404
         THEN [ok |-> FALSE, error |-> "path " \o path \o " not found", body |-> TextBody]
         ELSE [ok |-> TRUE, error |-> "", body |-> resp.body]

\* parse_json::<T>(data): result.ok()
parse_json(data, schema) ==
    LET result == from_str(data, schema)
    IN  IF result.variant = "Err" THEN OkNone ELSE result

\* let data = get_file_content(&path, &self.repo).await?; Ok(parse_json(data).await)
GetFile(path, resp, schema) ==
    LET data == get_file_content(path, resp)
    IN  IF ~data.ok THEN Err(data.error) ELSE parse_json(data.body, schema)

\* format!("{}/chain.json", name)
ChainPath(name) == Str(name) \o "/chain.json"

\* format!("{}/assetlist.json", name)
AssetsPath(name) == Str(name) \o "/assetlist.json"

\* The path file's name with the chain names in the caller's order.
IBCPathName_as_given(chain_a, chain_b) ==
    "_IBC/" \o Str(chain_a) \o "-" \o Str(chain_b) \o ".json"

\* format!("_IBC/{}-{}.json", chain_a.min(chain_b), chain_a.max(chain_b))
IBCPathName(chain_a, chain_b) ==
    "_IBC/" \o Str(StrMin(chain_a, chain_b)) \o "-" \o Str(StrMax(chain_a, chain_b)) \o ".json"

----------------------------------------------------------------------------
(* The calls *)

\* The chain names callers ask for.
ChainNames == { <<"a", "b">>, <<"b">> }

\* What a request to url meets: no connection, or the host's reply, which is
\* the one it gave before when it gave one.
Meets(url, statuses, bodies) ==
    {Refused} \cup
        (IF url \in DOMAIN remote THEN {remote[url]}
         ELSE { Reply(s, b) : s \in statuses, b \in bodies })

\* One operation of the Registry: it sends its one request, which meets
\* resp, and returns result.
Request(op, args, url, resp, result) ==
    /\ sent' = Append(sent, url)
    /\ remote' = IF resp.refused THEN remote ELSE (url :> resp) @@ remote
    /\ log' = Append(log, [op |-> op, args |-> args, url |-> url,
                           resp |-> resp, result |-> result])
    /\ UNCHANGED repo

\* An operation that a caller of the Registry invokes.
Call(op, args, url, resp, result) ==
    /\ Len(log) < MaxCalls
    /\ Request(op, args, url, resp, result)
    /\ UNCHANGED cache

\* Registry::get_chain(name), the host answering with these statuses and bodies.
get_chain_from(statuses, bodies) ==
    \E name \in ChainNames :
        LET path == ChainPath(name)
            url  == FileUrl(repo, path)
        IN  \E resp \in Meets(url, statuses, bodies) :
                Call("get_chain", <<name>>, url, resp, GetFile(path, resp, ChainInfo))

\* Registry::get_assets(name), the host answering with these statuses and bodies.
get_assets_from(statuses, bodies) ==
    \E name \in ChainNames :
        LET path == AssetsPath(name)
            url  == FileUrl(repo, path)
        IN  \E resp \in Meets(url, statuses, bodies) :
                Call("get_assets", <<name>>, url, resp, GetFile(path, resp, AssetList))

\* Registry::get_path(chain_a, chain_b), the host answering with these
\* statuses and bodies.
get_path_from(statuses, bodies) ==
    \E chain_a \in ChainNames, chain_b \in ChainNames :
        LET path == IBCPathName(chain_a, chain_b)
            url  == FileUrl(repo, path)
        IN  \E resp \in Meets(url, statuses, bodies) :
                Call("get_path", <<chain_a, chain_b>>, url, resp, GetFile(path, resp, IBCPath))

\* The bodies chain.json, assetlist.json and a path's file are served with.
ChainFiles == Bodies(ChainInfo)

AssetFiles == Bodies(AssetList)

PathFiles == Bodies(IBCPath)

get_chain == get_chain_from(Statuses, ChainFiles)

get_assets == get_assets_from(Statuses, AssetFiles)

get_path == get_path_from(Statuses, PathFiles)

----------------------------------------------------------------------------
(* Listings *)

\* github::Content: one entry of a directory listing.
Content(name, type_field) == [name |-> name, type_field |-> type_field]

\* serde_json::from_str::<Vec<Content>>(json): a JSON array of entries, or an error.
from_str_contents(json) ==
    IF json.kind = "array" THEN OkVec(json.entries) ELSE Err("invalid type")

\* get(url), given what the request met: the text of the reply, whatever its status.
get(resp) ==
    IF resp.refused THEN [ok |-> FALSE, error |-> "transport", body |-> TextBody]
    ELSE [ok |-> TRUE, error |-> "", body |-> resp.body]

\* format!("{}?ref={}", &self.repo.url, &self.repo.git_ref)
ChainsUrl(r) == r.url \o "?ref=" \o RefDisplay(r.git_ref)

\* format!("{}/_IBC?ref={}", &self.repo.url, &self.repo.git_ref)
PathsUrl(r) == r.url \o "/_IBC?ref=" \o RefDisplay(r.git_ref)

\* The chain filter without its ".github" test.
IsChain_keeps_github(c) ==
    /\ c.type_field = "dir"
    /\ ~starts_with(c.name, <<"_">>)

\* .filter(|c| c.type_field == "dir" && !c.name.starts_with('_') && c.name != ".github")
IsChain(c) ==
    /\ c.type_field = "dir"
    /\ ~starts_with(c.name, <<"_">>)
    /\ c.name # <<".", "g", "i", "t", "h", "u", "b">>

\* .filter(|c| c.type_field == "file" && !c.name.starts_with('_') && c.name.ends_with(".json"))
IsPath(c) ==
    /\ c.type_field = "file"
    /\ ~starts_with(c.name, <<"_">>)
    /\ ends_with(c.name, DotJson)

\* .map(|c| c.name[..c.name.len() - ".json".len()].to_string())
StripJson(name) == SubSeq(name, 1, Len(name) - Len(DotJson))

\* contents.iter().filter(IsChain).map(|c| c.clone().name).collect()
RECURSIVE ChainsOf(_)
ChainsOf(contents) ==
    IF contents = <<>> THEN <<>>
    ELSE (IF IsChain(Head(contents)) THEN <<Head(contents).name>> ELSE <<>>)
            \o ChainsOf(Tail(contents))

\* contents.iter().filter(IsPath).map(StripJson).collect()
RECURSIVE PathsOf(_)
PathsOf(contents) ==
    IF contents = <<>> THEN <<>>
    ELSE (IF IsPath(Head(contents)) THEN <<StripJson(Head(contents).name)>> ELSE <<>>)
            \o PathsOf(Tail(contents))

\* Registry::list_chains, given what the request met.
ListChains(resp) ==
    LET json == get(resp)
    IN  IF ~json.ok THEN Err(json.error)
        ELSE LET contents == from_str_contents(json.body)
             IN  IF contents.variant = "Err" THEN contents
                 ELSE OkVec(ChainsOf(contents.value))

\* Registry::list_paths, given what the request met.
ListPaths(resp) ==
    LET json == get(resp)
    IN  IF ~json.ok THEN Err(json.error)
        ELSE LET contents == from_str_contents(json.body)
             IN  IF contents.variant = "Err" THEN contents
                 ELSE OkVec(PathsOf(contents.value))

\* Entries of the registry's root directory.
RootEntries ==
    { Content(<<"b">>, "dir"),
      Content(<<"a", "b">>, "dir"),
      Content(<<"a", "b">>, "file"),
      Content(<<"_", "I", "B", "C">>, "dir"),
      Content(<<".", "g", "i", "t", "h", "u", "b">>, "dir") }

\* Entries of the registry's _IBC directory.
IBCEntries ==
    { Content(<<"a", "b", "-", "b">> \o DotJson, "file"),
      Content(<<"_", "t">> \o DotJson, "file"),
      Content(<<"a", "b", "-", "b">>, "file"),
      Content(<<"x">> \o DotJson \o DotJson, "file") }

\* The listings of at most MaxEntries entries.
Listings(entries) ==
    UNION { [1..n -> entries] : n \in 0..MaxEntries }

\* The bodies a listing request is answered with: a JSON object (the host's
\* error message) or a JSON array of entries.
ListingBodies(entries) ==
    { ObjectBody({ <<"message", "string">> }) } \cup { ArrayBody(l) : l \in Listings(entries) }

\* Registry::list_chains(), the host answering with these statuses and bodies.
list_chains_from(statuses, bodies) ==
    LET url == ChainsUrl(repo)
    IN  \E resp \in Meets(url, statuses, bodies) :
            Call("list_chains", <<>>, url, resp, ListChains(resp))

\* Registry::list_paths(), the host answering with these statuses and bodies.
list_paths_from(statuses, bodies) ==
    LET url == PathsUrl(repo)
    IN  \E resp \in Meets(url, statuses, bodies) :
            Call("list_paths", <<>>, url, resp, ListPaths(resp))

\* The bodies the listings of the root and of _IBC are served with.
RootListings == ListingBodies(RootEntries)

IBCListings == ListingBodies(IBCEntries)

list_chains == list_chains_from(ListingStatuses, RootListings)

list_paths == list_paths_from(ListingStatuses, IBCListings)

\* No RegistryCache is under construction.
NoCache == [pc |-> "none", names |-> <<>>, task |-> <<>>, paths |-> <<>>, query |-> <<>>]

Init ==
    /\ repo \in Repos
    /\ remote = <<>>
    /\ log = <<>>
    /\ sent = <<>>
    /\ cache = NoCache

Next == get_chain \/ get_assets \/ get_path

Spec == Init /\ [][Next]_vars

NextList == list_chains \/ list_paths

SpecList == Init /\ [][NextList]_vars

\* Every operation of the Registry, in any order, each host answering with
\* one status of success and one of failure and with an empty document.
EmptyFile == { ObjectBody({}) }

EmptyListing == { ArrayBody(<<>>) }

AnyStatuses == {200, 500}

any_list_chains == list_chains_from(AnyStatuses, EmptyListing)

any_list_paths == list_paths_from(AnyStatuses, EmptyListing)

any_get_chain == get_chain_from(AnyStatuses, EmptyFile)

any_get_assets == get_assets_from(AnyStatuses, EmptyFile)

any_get_path == get_path_from(AnyStatuses, EmptyFile)

NextAny ==
    \/ any_list_chains
    \/ any_list_paths
    \/ any_get_chain
    \/ any_get_assets
    \/ any_get_path

SpecAny == Init /\ [][NextAny]_vars

----------------------------------------------------------------------------
(* The path cache: RegistryCache::try_new and get_paths_filtered *)

\* The number of get_path calls try_new has in flight at once.
ConcurrencyLimit == 2

\* struct Tags: the tags of one channel.
Tags(dex, preferred, properties, status) ==
    [dex |-> dex, preferred |-> preferred, properties |-> properties, status |-> status]

TagsA == Tags("osmosis", TRUE, "", "live")

TagsB == Tags("", FALSE, "osmosis", "killed")

\* The body of a path file: every field of IBCPath, with these channels.
PathBody(channels) ==
    [ObjectBody({ <<k, IBCPath[k]>> : k \in DOMAIN IBCPath }) EXCEPT !.channels = channels]

\* The bodies the files of _IBC are served with.
PathBodies ==
    { TextBody, PathBody(<<TagsA>>), PathBody(<<TagsB>>), PathBody(<<TagsB, TagsA>>) }

\* The statuses the raw-file host answers a path file's fetch with.
PathStatuses == {200, 404}

\* The path files the _IBC directory lists.
PathEntries ==
    { Content(<<"a", "-", "b">> \o DotJson, "file"),
      Content(<<"b", "-", "a">> \o DotJson, "file"),
      Content(<<"a", "b", "-", "b">> \o DotJson, "file") }

\* enum Tag: Dex(String), Preferred(bool), Properties(String), Status(String).
TagKinds == {"Dex", "Preferred", "Properties", "Status"}

\* The values a caller filters by.
TagValues(kind) ==
    CASE kind = "Dex" -> {"osmosis"}
      [] kind = "Preferred" -> {TRUE, FALSE}
      [] kind = "Properties" -> {"osmosis"}
      [] kind = "Status" -> {"live", "killed"}

\* The position of the first '-' of the name, 0 when it has none.
RECURSIVE Hyphen(_, _)
Hyphen(name, i) ==
    IF i > Len(name) THEN 0
    ELSE IF name[i] = "-" THEN i
    ELSE Hyphen(name, i + 1)

\* The two chain names of a path identifier <chain_a>-<chain_b>.
SplitName(name) ==
    LET h == Hyphen(name, 1)
    IN  <<SubSeq(name, 1, h - 1), SubSeq(name, h + 1, Len(name))>>

\* The key of a cached path: the two chain names in lexicographic order.
CacheKey(chain_a, chain_b) == <<StrMin(chain_a, chain_b), StrMax(chain_a, chain_b)>>

\* The IBCPath a get_path returned: the fields read from the body and the
\* channels of its "channels" member.
Descriptor(resp, result) ==
    [ fields   |-> result.value,
      channels |-> IF "channels" \in result.value THEN resp.body.channels ELSE <<>> ]

\* paths.insert(key, path): a key the map holds keeps its place.
Insert(paths, key, path) ==
    IF \E k \in 1..Len(paths) : paths[k].key = key
    THEN [k \in 1..Len(paths) |->
            IF paths[k].key = key THEN [key |-> key, path |-> path] ELSE paths[k]]
    ELSE Append(paths, [key |-> key, path |-> path])

\* The tasks of try_new that are in the given state.
Tasks(state) == { i \in DOMAIN cache.task : cache.task[i] = state }

\* try_new, step 1: list_paths. Its failure fails the construction.
try_new ==
    /\ cache.pc = "none"
    /\ LET url == PathsUrl(repo)
       IN  \E resp \in Meets(url, ListingStatuses, ListingBodies(PathEntries)) :
              LET result == ListPaths(resp)
              IN  /\ Request("list_paths", <<>>, url, resp, result)
                  /\ cache' =
                        IF result.variant = "Err"
                        THEN [cache EXCEPT !.pc = "failed"]
                        ELSE [cache EXCEPT
                                !.pc = "fetching",
                                !.names = result.value,
                                !.task = [i \in 1..Len(result.value) |-> "todo"]]

\* try_new, step 2: a get_path is started while fewer than the limit run.
spawn ==
    /\ cache.pc = "fetching"
    /\ Cardinality(Tasks("inflight")) < ConcurrencyLimit
    /\ \E i \in Tasks("todo") :
            cache' = [cache EXCEPT !.task[i] = "inflight"]
    /\ UNCHANGED <<repo, remote, log, sent>>

\* try_new, steps 3 and 4: a get_path completes. Its descriptor is inserted
\* under the key of its chains; None and Err are skipped.
complete ==
    /\ cache.pc = "fetching"
    /\ \E i \in Tasks("inflight") :
          LET chains == SplitName(cache.names[i])
              path   == IBCPathName(chains[1], chains[2])
              url    == FileUrl(repo, path)
          IN  \E resp \in Meets(url, PathStatuses, PathBodies) :
                LET result == GetFile(path, resp, IBCPath)
                IN  /\ Request("get_path", chains, url, resp, result)
                    /\ cache' =
                          [cache EXCEPT
                            !.task[i] = "done",
                            !.paths =
                                IF result.variant = "Some"
                                THEN Insert(@, CacheKey(chains[1], chains[2]),
                                            Descriptor(resp, result))
                                ELSE @]

\* try_new returns the cache once every get_path has completed.
try_new_return ==
    /\ cache.pc = "fetching"
    /\ Tasks("todo") = {} /\ Tasks("inflight") = {}
    /\ cache' = [cache EXCEPT !.pc = "built"]
    /\ UNCHANGED <<repo, remote, log, sent>>

\* The field of the channel's tags that a Tag of this kind compares.
TagField(tags, kind) ==
    CASE kind = "Dex" -> tags.dex
      [] kind = "Preferred" -> tags.preferred
      [] kind = "Properties" -> tags.properties
      [] kind = "Status" -> tags.status

\* The match that looks at the first channel only.
Matches_first_channel(path, kind, value) ==
    /\ path.channels # <<>>
    /\ TagField(path.channels[1], kind) = value

\* The path has a channel whose tag of this kind has this value.
Matches(path, kind, value) ==
    \E c \in 1..Len(path.channels) : TagField(path.channels[c], kind) = value

\* The cached paths that match, in the order of the cache.
RECURSIVE Filtered(_, _, _)
Filtered(paths, kind, value) ==
    IF paths = <<>> THEN <<>>
    ELSE (IF Matches(Head(paths).path, kind, value) THEN <<Head(paths).path>> ELSE <<>>)
            \o Filtered(Tail(paths), kind, value)

\* RegistryCache::get_paths_filtered(tag)
get_paths_filtered ==
    /\ cache.pc = "built"
    /\ \E kind \in TagKinds :
          \E value \in TagValues(kind) :
             cache' = [cache EXCEPT !.query =
                         <<[kind |-> kind, value |-> value,
                            result |-> Filtered(cache.paths, kind, value)]>>]
    /\ UNCHANGED <<repo, remote, log, sent>>

NextCache == try_new \/ spawn \/ complete \/ try_new_return \/ get_paths_filtered

SpecCache == Init /\ [][NextCache]_vars

----------------------------------------------------------------------------
(* Properties *)

Calls == 1..Len(log)

FileOps == {"get_chain", "get_assets", "get_path"}

ListOps == {"list_chains", "list_paths"}

\* The deserialization target of a single-file operation.
SchemaOf(op) ==
    CASE op = "get_chain" -> ChainInfo
      [] op = "get_assets" -> AssetList
      [] op = "get_path" -> IBCPath

\* The call reached the host, which answered with this status.
Answered(i, status) == ~log[i].resp.refused /\ log[i].resp.status = status

\* C1: a get_chain, get_assets or get_path whose fetch is answered 404
\* returns Ok(None), not an error.
C1_NotFoundIsAbsence ==
    \A i \in Calls :
        (log[i].op \in FileOps /\ Answered(i, 404)) => log[i].result.variant = "None"

\* C2: a get_chain, get_assets or get_path whose fetch is answered 200 with
\* a body that is no JSON or does not match the target schema returns an
\* error, never Ok(None).
C2_MalformedIsError ==
    \A i \in Calls :
        ( /\ log[i].op \in FileOps
          /\ Answered(i, 200)
          /\ \/ log[i].resp.body.kind = "text"
             \/ \E m \in log[i].resp.body.members :
                    /\ m[1] \in DOMAIN SchemaOf(log[i].op)
                    /\ m[2] # SchemaOf(log[i].op)[m[1]] )
        => log[i].result.variant = "Err"

\* C3: a get_path answered 404 returns absence and a get_path whose
\* transport fails returns an error, so the two outcomes are different
\* variants of the return type.
C3_AbsenceDistinctFromFailure ==
    \A i \in Calls, j \in Calls :
        ( /\ log[i].op = "get_path" /\ Answered(i, 404)
          /\ log[j].op = "get_path" /\ log[j].resp.refused )
        => /\ log[i].result.variant = "None"
           /\ log[j].result.variant = "Err"
           /\ log[i].result.variant # log[j].result.variant

\* The address the claim gives for the path of a and b.
CanonicalPathUrl(a, b) ==
    LET lo == IF StrLess(b, a) THEN b ELSE a
        hi == IF StrLess(b, a) THEN a ELSE b
    IN  repo.raw_file_url \o "/" \o RefDisplay(repo.git_ref) \o "/_IBC/"
            \o Str(lo) \o "-" \o Str(hi) \o ".json"

\* C4: get_path(a, b) and get_path(b, a) fetch the same address,
\* {raw_file_url}/{ref}/_IBC/{min(a,b)}-{max(a,b)}.json, and return the same
\* result when both reach the host.
C4_PathOrderIndependent ==
    \A i \in Calls, j \in Calls :
        ( /\ log[i].op = "get_path" /\ log[j].op = "get_path"
          /\ log[j].args = <<log[i].args[2], log[i].args[1]>> )
        => /\ log[i].url = CanonicalPathUrl(log[i].args[1], log[i].args[2])
           /\ log[i].url = log[j].url
           /\ (~log[i].resp.refused /\ ~log[j].resp.refused)
                => log[i].result = log[j].result

\* Two get_path calls on the same two different chains, in opposite orders,
\* both answered with a descriptor.
C4_Witness ==
    \E i \in Calls, j \in Calls :
        /\ log[i].op = "get_path" /\ log[j].op = "get_path"
        /\ log[i].args[1] # log[i].args[2]
        /\ log[j].args = <<log[i].args[2], log[i].args[1]>>
        /\ log[i].result.variant = "Some" /\ log[j].result.variant = "Some"

\* C5: a get_chain, get_assets or get_path whose fetch is answered with a
\* status outside 2xx other than 404 returns an error, whatever the body.
C5_OtherStatusIsError ==
    \A i \in Calls :
        ( /\ log[i].op \in FileOps
          /\ ~log[i].resp.refused
          /\ log[i].resp.status # 404
          /\ log[i].resp.status \notin 200..299 )
        => log[i].result.variant = "Err"

\* C6: a list_chains or list_paths whose request is answered with a status
\* outside 2xx returns an error, whatever the body.
C6_ListingStatusIsError ==
    \A i \in Calls :
        ( /\ log[i].op \in ListOps
          /\ ~log[i].resp.refused
          /\ log[i].resp.status \notin 200..299 )
        => log[i].result.variant = "Err"

\* C7: a get_chain whose body is a JSON object with a member that ChainInfo
\* does not have returns an error.
C7_UnknownFieldRejected ==
    \A i \in Calls :
        ( /\ log[i].op = "get_chain"
          /\ Answered(i, 200)
          /\ log[i].resp.body.kind = "object"
          /\ \E m \in log[i].resp.body.members : m[1] \notin DOMAIN ChainInfo )
        => log[i].result.variant = "Err"

\* C8: no string that list_paths returns ends with ".json".
C8_NoJsonSuffix ==
    \A i \in Calls :
        (log[i].op = "list_paths" /\ log[i].result.variant = "Ok")
        => \A k \in 1..Len(log[i].result.value) :
                ~ends_with(log[i].result.value[k], DotJson)

\* The entry is one the claim has list_chains keep.
C9_Kept(c) ==
    /\ c.type_field = "dir"
    /\ c.name[1] # "_"
    /\ Str(c.name) # ".github"

\* C9: list_chains returns the names of the listed entries that are
\* directories, do not start with '_' and are not ".github", in the order of
\* the listing; no returned name starts with '_' or is ".github".
C9_ListChainsFilter ==
    \A i \in Calls :
        ( /\ log[i].op = "list_chains"
          /\ ~log[i].resp.refused
          /\ log[i].resp.body.kind = "array" )
        => LET kept == SelectSeq(log[i].resp.body.entries, C9_Kept)
           IN  /\ log[i].result.variant = "Ok"
               /\ log[i].result.value = [k \in 1..Len(kept) |-> kept[k].name]
               /\ \A k \in 1..Len(log[i].result.value) :
                    /\ Head(log[i].result.value[k]) # "_"
                    /\ Str(log[i].result.value[k]) # ".github"

\* A list_chains over a listing of ".github" and a chain's directory, which
\* returns the chain's name alone.
C9_Witness ==
    \E i \in Calls :
        /\ log[i].op = "list_chains"
        /\ log[i].result.variant = "Ok"
        /\ \E k \in 1..Len(log[i].resp.body.entries) :
                Str(log[i].resp.body.entries[k].name) = ".github"
        /\ Len(log[i].resp.body.entries) = 2
        /\ Len(log[i].result.value) = 1

Fetches == 2..Len(log)

\* The two chain names in lexicographic order.
SortedPair(args) ==
    IF StrLess(args[2], args[1]) THEN <<args[2], args[1]>> ELSE <<args[1], args[2]>>

C12_HasTag(path, q) ==
    \E c \in 1..Len(path.channels) :
        \/ q.kind = "Dex" /\ path.channels[c].dex = q.value
        \/ q.kind = "Preferred" /\ path.channels[c].preferred = q.value
        \/ q.kind = "Properties" /\ path.channels[c].properties = q.value
        \/ q.kind = "Status" /\ path.channels[c].status = q.value

\* C12: a filter is answered only by a built cache, with exactly the cached
\* paths that have a channel whose tag field of the filter's kind equals its
\* value; answering it sends no request and leaves the cached paths as
\* they are.
C12_FilterExact ==
    /\ [](cache.query # <<>> =>
            LET q    == cache.query[1]
                hits == { k \in 1..Len(cache.paths) : C12_HasTag(cache.paths[k].path, q) }
            IN  /\ cache.pc = "built"
                /\ Len(q.result) = Cardinality(hits)
                /\ { q.result[k] : k \in 1..Len(q.result) }
                        = { cache.paths[k].path : k \in hits })
    /\ [][cache'.query # cache.query =>
            /\ sent' = sent
            /\ remote' = remote
            /\ log' = log
            /\ cache'.paths = cache.paths]_vars

\* A filter by Dex("osmosis") on a cache of two paths, which returns one: the
\* path whose second channel has that dex, and not the path whose only
\* channel has "osmosis" as its properties.
C12_Witness ==
    /\ cache.query # <<>>
    /\ cache.query[1].kind = "Dex"
    /\ Len(cache.paths) = 2
    /\ \E k \in 1..2 : cache.paths[k].path.channels = <<TagsB>>
    /\ cache.query[1].result = << [fields |-> DOMAIN IBCPath, channels |-> <<TagsB, TagsA>>] >>

\* The address the claim gives for the call.
C13_Address(call) ==
    LET ref == IF repo.git_ref.kind = "Latest" THEN "master" ELSE repo.git_ref.sha
    IN  CASE call.op = "list_chains" -> repo.url \o "?ref=" \o ref
          [] call.op = "list_paths" -> repo.url \o "/_IBC?ref=" \o ref
          [] call.op = "get_chain" ->
                repo.raw_file_url \o "/" \o ref \o "/" \o Str(call.args[1]) \o "/chain.json"
          [] call.op = "get_assets" ->
                repo.raw_file_url \o "/" \o ref \o "/" \o Str(call.args[1]) \o "/assetlist.json"
          [] call.op = "get_path" -> CanonicalPathUrl(call.args[1], call.args[2])

\* C13: in any sequence of operations every operation sends exactly one
\* request, whether it succeeds or not, to the address made of the Repo's
\* base URL for the operation and the resolved ref ("master" for Latest, the
\* sha for SHA); the Repo does not change.
C13_OneRequestAtRefAddress ==
    /\ [](/\ Len(sent) = Len(log)
          /\ \A i \in Calls :
                /\ sent[i] = log[i].url
                /\ log[i].url = C13_Address(log[i]))
    /\ [][repo' = repo]_vars

\* A Registry of Ref::Latest after a list_chains and a get_chain whose
\* request was refused: two requests were sent.
C13_Witness ==
    /\ repo.git_ref.kind = "Latest"
    /\ Len(sent) = 2
    /\ \E i \in Calls : log[i].op = "list_chains" /\ log[i].result.variant = "Ok"
    /\ \E i \in Calls : log[i].op = "get_chain" /\ log[i].resp.refused

====
